---- MODULE Spec2Model ----
(***************************************************************************)
(* Gesture-recognition firmware: the sliding-window producer               *)
(* (inference_module.cpp), the lock-guarded result cache, and its two      *)
(* consumers (led_module.cpp, ble_module.cpp).                             *)
(*                                                                         *)
(* Confidences are floats in the code; here they are integers in           *)
(* hundredths (0.65f is 65), which keeps every comparison the code makes.  *)
(* Array offsets are 0-based as in the code; TLA+ functions are 1-based,   *)
(* so buf[k] of the code is buf[k + 1] here.                               *)
(***************************************************************************)
EXTENDS Integers, Sequences, FiniteSets, TLC

\* ------------------------------------------------------------------ bounds
\* Window length in accelerometer triples (EI_CLASSIFIER_DSP_INPUT_FRAME_SIZE / 3).
FrameTriples == 3
\* Cap on the number of commits explored.
MaxVersion == 2

\* --------------------------------------------------------------- constants
SLIDING_WINDOW_STEP == 6
EI_CLASSIFIER_DSP_INPUT_FRAME_SIZE == 3 * FrameTriples
\* confidence > 0.65f (led_module.cpp), in hundredths
kLedMinConfidence == 65
\* kMinConfidenceToTransmit = 0.55f, in hundredths
kMinConfidenceToTransmit == 55
HIGH == 1
LOW == 0

ei_classifier_inferencing_categories == <<"idle", "up", "down", "left", "right">>
EI_CLASSIFIER_LABEL_COUNT == Len(ei_classifier_inferencing_categories)

\* Scores a classifier run may report for one category (hundredths).
ScoreLevels == {0, 54, 65}
AllScoreVectors == [1..EI_CLASSIFIER_LABEL_COUNT -> ScoreLevels]
\* Cell values of the windows and bases of the new blocks tried on slide_window.
WinVals == {0, 1}
BlockBases == {0, 10}
\* The classifier results explored in the task pipeline: nothing detected,
\* a tie at the indicator threshold, a resting result, a clear gesture.
ClassifierOutputs ==
    { <<0, 0, 0, 0, 0>>,
      <<0, 65, 65, 0, 0>>,
      <<90, 5, 5, 0, 0>>,
      <<10, 0, 0, 90, 0>> }

NoTask == "none"

VARIABLES
    \* ResultStore (inference_module.cpp statics)
    g_inference_mutex,      \* owner of the mutex, or NoTask
    g_prediction_index,
    g_confidence,
    g_sequence,
    \* producer: inference_task
    pc_inf,
    collected,
    g_sliding_window,
    new_samples,
    max_index,
    max_confidence,
    imu_next,               \* number of the next accelerometer sample
    imu_period,             \* the sampled signal repeats after this many samples
    \* history of the producer
    committed,              \* (index, confidence) pairs written by one commit
    last_commit,            \* the pair written by the latest commit, <<>> if none
    n_commits,              \* number of pairs written since the initial state
    same_as_prev,           \* the latest commit wrote the pair that was stored
    commit_cap,             \* the number of commits explored
    last_version,           \* the version after the latest commit
    hold_commits,           \* commits in a row made while the indicator holds
    \* indicator consumer: led_control_task
    pc_led,
    led_snap,
    last_sequence,
    led_color,
    led_prev_seq,           \* history: version of the snapshot before this one
    \* publish consumer: ble_task
    pc_ble,
    ble_snap,
    last_published_sequence,
    ble_first_poll,         \* history: no poll evaluated yet since activation
    ble_published,          \* history: versions published since activation
    ble_published_before,   \* history: versions published in earlier activations
    ble_repeated,           \* history: a version was published twice in one activation
    ble_link_seen,          \* history: what the latest central()/connected() reported
    link,                   \* the central is connected (environment)
    \* callers of the public accessors
    pc_rd,
    rd_index,
    rd_confidence,
    pc_clr,
    \* inputs and outputs of the pure-function specifications
    sw_old,
    sw_new,
    sw_done,
    arg_scores,
    arg_out,
    \* the single-file pipeline (main.cpp): globals, inference_task,
    \* led_control_task
    g_latest_prediction_index,
    g_latest_confidence,
    pc_main_inf,
    main_buffer,
    main_buf_idx,
    main_max_index,
    main_max_confidence,
    main_committed,         \* history: (index, confidence) pairs written by one cycle
    main_cycles,            \* history: number of cycles that wrote a pair
    pc_main_led,
    led_confidence,         \* g_latest_confidence as read at the gate
    led_index_checked,      \* g_latest_prediction_index as read at the gate
    led_index_used,         \* g_latest_prediction_index as read for the table
    led_indexed,            \* history: this pass indexed the label table
    main_led_color

storeVars == <<g_inference_mutex, g_prediction_index, g_confidence, g_sequence>>
infVars == <<pc_inf, collected, g_sliding_window, new_samples, max_index,
             max_confidence, imu_next, imu_period, committed, last_commit, n_commits, same_as_prev,
                   commit_cap, last_version, hold_commits>>
ledVars == <<pc_led, led_snap, last_sequence, led_color, led_prev_seq>>
bleVars == <<pc_ble, ble_snap, last_published_sequence, ble_first_poll,
             ble_published, ble_published_before, ble_repeated, ble_link_seen>>
apiVars == <<pc_rd, rd_index, rd_confidence, pc_clr>>
fnVars == <<sw_old, sw_new, sw_done, arg_scores, arg_out>>
mainVars == <<g_latest_prediction_index, g_latest_confidence, pc_main_inf,
              main_buffer, main_buf_idx, main_max_index, main_max_confidence,
              main_committed, main_cycles, pc_main_led, led_confidence,
              led_index_checked, led_index_used, led_indexed, main_led_color>>
vars == <<storeVars, infVars, ledVars, bleVars, link, apiVars, fnVars, mainVars>>

\* ---------------------------------------------------------- pure functions

\* memmove(buf + dst, buf + src, n): the n cells read before any is written.
memmove(buf, dst, src, n) ==
    [i \in DOMAIN buf |->
        IF i - 1 >= dst /\ i - 1 < dst + n THEN buf[(i - 1 - dst) + src + 1]
        ELSE buf[i]]

\* memcpy(buf + dst, data, n)
memcpy(buf, dst, data, n) ==
    [i \in DOMAIN buf |->
        IF i - 1 >= dst /\ i - 1 < dst + n THEN data[i - dst]
        ELSE buf[i]]

\* Variant: the new block is copied to offset new_data_size, not shift_size.
slide_window_append_at_step(window, new_data, new_data_size) ==
    LET shift_size == EI_CLASSIFIER_DSP_INPUT_FRAME_SIZE - new_data_size
    IN  memcpy(memmove(window, 0, new_data_size, shift_size),
               new_data_size, new_data, new_data_size)

slide_window(window, new_data, new_data_size) ==
    LET shift_size == EI_CLASSIFIER_DSP_INPUT_FRAME_SIZE - new_data_size
    IN  memcpy(memmove(window, 0, new_data_size, shift_size),
               shift_size, new_data, new_data_size)

\* The arg-max loop of run_inference: scan i = 0 .. LABEL_COUNT-1, keep the
\* first strictly larger value.  Returns <<max_index, max_confidence>>.
RECURSIVE find_max(_, _, _, _)
find_max(classification, i, maxc, maxi) ==
    IF i >= EI_CLASSIFIER_LABEL_COUNT THEN <<maxi, maxc>>
    ELSE IF classification[i + 1] > maxc
         THEN find_max(classification, i + 1, classification[i + 1], i)
         ELSE find_max(classification, i + 1, maxc, maxi)

\* Variant: the scan keeps the last of several equal values (>= for >).
RECURSIVE find_max_ge(_, _, _, _)
find_max_ge(classification, i, maxc, maxi) ==
    IF i >= EI_CLASSIFIER_LABEL_COUNT THEN <<maxi, maxc>>
    ELSE IF classification[i + 1] >= maxc
         THEN find_max_ge(classification, i + 1, classification[i + 1], i)
         ELSE find_max_ge(classification, i + 1, maxc, maxi)

arg_max_last_wins(classification) == find_max_ge(classification, 0, 0, -1)

arg_max(classification) == find_max(classification, 0, 0, -1)

inference_get_category_name(index) ==
    IF index >= 0 /\ index < EI_CLASSIFIER_LABEL_COUNT
    THEN ei_classifier_inferencing_categories[index + 1]
    ELSE "unknown"

set_led_color(r, g, b) == <<r, g, b>>

\* Sample n of the accelerometer: three values x, y, z, numbered in arrival order.
readAcceleration(n) == <<3 * n, 3 * n + 1, 3 * n + 2>>

\* buffer[collected++] = x; buffer[collected++] = y; buffer[collected++] = z;
store_sample(buffer, at, s) ==
    [i \in DOMAIN buffer |->
        IF i - 1 >= at /\ i - 1 < at + 3 THEN s[i - at] ELSE buffer[i]]

ZeroBuffer(n) == [i \in 1..n |-> 0]

NoSnap == [index |-> -1, confidence |-> 0, sequence |-> 0]

\* ------------------------------------------------------------ rtos::Mutex
MutexFree == g_inference_mutex = NoTask

\* --------------------------------------------- producer: inference_task()

\* One pass of the loop in collect_new_samples(buffer, num_samples) with
\* collected < num_samples: poll the sensor, store a triple when one is
\* ready, sleep 10 ms.  Returns <<buffer', collected', imu_next'>>.
collect_poll(buffer, avail) ==
    IF avail
    THEN <<store_sample(buffer, collected, readAcceleration(imu_next)),
           collected + 3, (imu_next + 1) % imu_period>>
    ELSE <<buffer, collected, imu_next>>

\* Variant: the initial fill ends one triple before the window is full.
InfFill_short ==
    /\ pc_inf = "fill"
    /\ \E avail \in BOOLEAN :
         LET r == collect_poll(g_sliding_window, avail) IN
         /\ g_sliding_window' = r[1]
         /\ imu_next' = r[3]
         /\ IF r[2] < EI_CLASSIFIER_DSP_INPUT_FRAME_SIZE - 3
            THEN collected' = r[2] /\ pc_inf' = "fill"
            ELSE collected' = 0 /\ pc_inf' = "collect"
    /\ UNCHANGED <<new_samples, max_index, max_confidence, imu_period,
                   committed, last_commit, n_commits, same_as_prev,
                   commit_cap, last_version, hold_commits>>
    /\ UNCHANGED <<storeVars, ledVars, bleVars, link, apiVars, fnVars, mainVars>>

\* inference_task(): collect_new_samples(g_sliding_window, FRAME_SIZE)
InfFill ==
    /\ pc_inf = "fill"
    /\ \E avail \in BOOLEAN :
         LET r == collect_poll(g_sliding_window, avail) IN
         /\ g_sliding_window' = r[1]
         /\ imu_next' = r[3]
         /\ IF r[2] < EI_CLASSIFIER_DSP_INPUT_FRAME_SIZE
            THEN collected' = r[2] /\ pc_inf' = "fill"
            ELSE collected' = 0 /\ pc_inf' = "collect"
    /\ UNCHANGED <<new_samples, max_index, max_confidence, imu_period,
                   committed, last_commit, n_commits, same_as_prev,
                   commit_cap, last_version, hold_commits>>
    /\ UNCHANGED <<storeVars, ledVars, bleVars, link, apiVars, fnVars, mainVars>>

\* for (;;): collect_new_samples(new_samples, SLIDING_WINDOW_STEP)
InfCollect ==
    /\ pc_inf = "collect"
    /\ \E avail \in BOOLEAN :
         LET r == collect_poll(new_samples, avail) IN
         /\ new_samples' = r[1]
         /\ imu_next' = r[3]
         /\ IF r[2] < SLIDING_WINDOW_STEP
            THEN collected' = r[2] /\ pc_inf' = "collect"
            ELSE collected' = 0 /\ pc_inf' = "slide"
    /\ UNCHANGED <<g_sliding_window, max_index, max_confidence, imu_period,
                   committed, last_commit, n_commits, same_as_prev,
                   commit_cap, last_version, hold_commits>>
    /\ UNCHANGED <<storeVars, ledVars, bleVars, link, apiVars, fnVars, mainVars>>

\* slide_window(new_samples, SLIDING_WINDOW_STEP)
InfSlide ==
    /\ pc_inf = "slide"
    /\ g_sliding_window' =
           slide_window(g_sliding_window, new_samples, SLIDING_WINDOW_STEP)
    /\ pc_inf' = "classify"
    /\ UNCHANGED <<collected, new_samples, max_index, max_confidence, imu_next,
                   imu_period, committed, last_commit, n_commits, same_as_prev,
                   commit_cap, last_version, hold_commits>>
    /\ UNCHANGED <<storeVars, ledVars, bleVars, link, apiVars, fnVars, mainVars>>

\* Variant: a failed run stores the "no result" pair before returning.
InfClassifyFail_clears ==
    /\ pc_inf = "classify"
    /\ pc_inf' = "fail_sleep"
    /\ g_prediction_index' = -1
    /\ g_confidence' = 0
    /\ UNCHANGED <<g_inference_mutex, g_sequence>>
    /\ UNCHANGED <<collected, g_sliding_window, new_samples, max_index,
                   max_confidence, imu_next, imu_period, committed, last_commit, n_commits, same_as_prev,
                   commit_cap, last_version, hold_commits>>
    /\ UNCHANGED <<ledVars, bleVars, link, apiVars, fnVars, mainVars>>

\* run_inference(): signal_from_buffer or run_classifier reports an error;
\* return false, and the task logs and goes to sleep_for(50 ms).
InfClassifyFail ==
    /\ pc_inf = "classify"
    /\ pc_inf' = "fail_sleep"
    /\ UNCHANGED <<collected, g_sliding_window, new_samples, max_index,
                   max_confidence, imu_next, imu_period, committed, last_commit, n_commits, same_as_prev,
                   commit_cap, last_version, hold_commits>>
    /\ UNCHANGED <<storeVars, ledVars, bleVars, link, apiVars, fnVars, mainVars>>

\* run_inference(): the classifier succeeds; the arg-max loop runs.
InfClassifyOk ==
    /\ pc_inf = "classify"
    /\ n_commits < commit_cap
    /\ \E classification \in ClassifierOutputs :
         LET m == arg_max(classification) IN
         /\ max_index' = m[1]
         /\ max_confidence' = m[2]
    /\ pc_inf' = "lock"
    /\ UNCHANGED <<collected, g_sliding_window, new_samples, imu_next,
                   imu_period, committed, last_commit, n_commits, same_as_prev,
                   commit_cap, last_version, hold_commits>>
    /\ UNCHANGED <<storeVars, ledVars, bleVars, link, apiVars, fnVars, mainVars>>

\* Variant: the commit runs without taking the mutex.
InfLock_skipped ==
    /\ pc_inf = "lock"
    /\ pc_inf' = "write_index"
    /\ UNCHANGED <<collected, g_sliding_window, new_samples, max_index,
                   max_confidence, imu_next, imu_period, committed, last_commit, n_commits, same_as_prev,
                   commit_cap, last_version, hold_commits>>
    /\ UNCHANGED <<storeVars, ledVars, bleVars, link, apiVars, fnVars, mainVars>>

\* g_inference_mutex.lock()
InfLock ==
    /\ pc_inf = "lock"
    /\ MutexFree
    /\ g_inference_mutex' = "inf"
    /\ pc_inf' = "write_index"
    /\ UNCHANGED <<g_prediction_index, g_confidence, g_sequence>>
    /\ UNCHANGED <<collected, g_sliding_window, new_samples, max_index,
                   max_confidence, imu_next, imu_period, committed, last_commit, n_commits, same_as_prev,
                   commit_cap, last_version, hold_commits>>
    /\ UNCHANGED <<ledVars, bleVars, link, apiVars, fnVars, mainVars>>

\* g_prediction_index = max_index
InfWriteIndex ==
    /\ pc_inf = "write_index"
    /\ g_prediction_index' = max_index
    /\ pc_inf' = "write_conf"
    /\ UNCHANGED <<g_inference_mutex, g_confidence, g_sequence>>
    /\ UNCHANGED <<collected, g_sliding_window, new_samples, max_index,
                   max_confidence, imu_next, imu_period, committed, last_commit, n_commits, same_as_prev,
                   commit_cap, last_version, hold_commits>>
    /\ UNCHANGED <<ledVars, bleVars, link, apiVars, fnVars, mainVars>>

\* g_confidence = max_confidence
InfWriteConf ==
    /\ pc_inf = "write_conf"
    /\ g_confidence' = max_confidence
    /\ pc_inf' = "write_seq"
    /\ committed' = committed \cup {<<max_index, max_confidence>>}
    /\ last_commit' = <<max_index, max_confidence>>
    /\ n_commits' = n_commits + 1
    /\ same_as_prev' =
          (<<max_index, max_confidence>> =
              (IF last_commit = <<>> THEN <<-1, 0>> ELSE last_commit))
    /\ hold_commits' = IF pc_led = "hold" THEN hold_commits + 1 ELSE 0
    /\ UNCHANGED <<g_inference_mutex, g_prediction_index, g_sequence>>
    /\ UNCHANGED <<collected, g_sliding_window, new_samples, max_index,
                   max_confidence, imu_next, imu_period, commit_cap,
                   last_version>>
    /\ UNCHANGED <<ledVars, bleVars, link, apiVars, fnVars, mainVars>>

\* The version kept with the result (the sequence number that
\* inference_get_result_with_seq reports).  A commit that replaces the stored
\* pair by a different one moves it up by one; a commit that stores the pair
\* already stored moves it up by one or leaves it.
InfWriteSeq ==
    /\ pc_inf = "write_seq"
    /\ \E bump \in (IF same_as_prev THEN {0, 1} ELSE {1}) :
         /\ g_sequence' = g_sequence + bump
         /\ last_version' = g_sequence + bump
    /\ pc_inf' = "unlock"
    /\ UNCHANGED <<g_inference_mutex, g_prediction_index, g_confidence>>
    /\ UNCHANGED <<collected, g_sliding_window, new_samples, max_index,
                   max_confidence, imu_next, imu_period, committed, last_commit,
                   n_commits, same_as_prev, commit_cap, hold_commits>>
    /\ UNCHANGED <<ledVars, bleVars, link, apiVars, fnVars, mainVars>>

\* Variant: run_inference returns with the mutex still held.
InfUnlock_missing ==
    /\ pc_inf = "unlock"
    /\ pc_inf' = "yield"
    /\ max_index' = -1
    /\ max_confidence' = 0
    /\ UNCHANGED <<collected, g_sliding_window, new_samples, imu_next,
                   imu_period, committed, last_commit, n_commits, same_as_prev,
                   commit_cap, last_version, hold_commits>>
    /\ UNCHANGED <<storeVars, ledVars, bleVars, link, apiVars, fnVars, mainVars>>

\* g_inference_mutex.unlock(); return true (the locals of run_inference end)
InfUnlock ==
    /\ pc_inf = "unlock"
    /\ g_inference_mutex' = IF g_inference_mutex = "inf" THEN NoTask
                            ELSE g_inference_mutex
    /\ pc_inf' = "yield"
    /\ max_index' = -1
    /\ max_confidence' = 0
    /\ UNCHANGED <<g_prediction_index, g_confidence, g_sequence>>
    /\ UNCHANGED <<collected, g_sliding_window, new_samples, imu_next,
                   imu_period, committed, last_commit, n_commits, same_as_prev,
                   commit_cap, last_version, hold_commits>>
    /\ UNCHANGED <<ledVars, bleVars, link, apiVars, fnVars, mainVars>>

\* sleep_for(1 ms) after a commit, or sleep_for(50 ms); continue after a
\* failed run: back to the top of the loop.
InfSleepEnd ==
    /\ pc_inf \in {"yield", "fail_sleep"}
    /\ pc_inf' = "collect"
    /\ UNCHANGED <<collected, g_sliding_window, new_samples, max_index,
                   max_confidence, imu_next, imu_period, committed, last_commit, n_commits, same_as_prev,
                   commit_cap, last_version, hold_commits>>
    /\ UNCHANGED <<storeVars, ledVars, bleVars, link, apiVars, fnVars, mainVars>>

InferenceTask ==
    \/ InfFill \/ InfCollect \/ InfSlide \/ InfClassifyFail \/ InfClassifyOk
    \/ InfLock \/ InfWriteIndex \/ InfWriteConf \/ InfWriteSeq \/ InfUnlock
    \/ InfSleepEnd

\* ------------------------------------------------ the result snapshot
\* inference_get_result_with_seq(): the three fields copied under one
\* acquisition of the mutex.
Snapshot ==
    [index |-> g_prediction_index, confidence |-> g_confidence,
     sequence |-> g_sequence]

\* --------------------------------- indicator consumer: led_control_task()
OFF == HIGH
ON == LOW
LedOff == set_led_color(OFF, OFF, OFF)

\* The colour the strcmp chain of the gesture branch leaves on the LED.
GestureColor(prediction, current) ==
    IF prediction = "up" THEN set_led_color(OFF, ON, OFF)
    ELSE IF prediction = "down" THEN set_led_color(ON, ON, OFF)
    ELSE IF prediction = "right" THEN set_led_color(ON, OFF, ON)
    ELSE IF prediction = "left" THEN set_led_color(OFF, OFF, ON)
    ELSE current

\* Variant: the snapshot returns with the mutex still held.
LedSnapshot_keeps_lock ==
    /\ pc_led = "snap"
    /\ MutexFree
    /\ g_inference_mutex' = "led"
    /\ led_snap' = Snapshot
    /\ pc_led' = "decide"
    /\ UNCHANGED <<g_prediction_index, g_confidence, g_sequence>>
    /\ UNCHANGED <<last_sequence, led_color, led_prev_seq>>
    /\ UNCHANGED <<infVars, bleVars, link, apiVars, fnVars, mainVars>>

\* The loop top: fresh locals, then the snapshot.
LedSnapshot ==
    /\ pc_led = "snap"
    /\ MutexFree
    /\ led_snap' = Snapshot
    /\ pc_led' = "decide"
    /\ UNCHANGED <<last_sequence, led_color, led_prev_seq>>
    /\ UNCHANGED <<storeVars, infVars, bleVars, link, apiVars, fnVars, mainVars>>

\* Variant: the version of the snapshot is not compared with the last one.
LedDecide_no_compare ==
    /\ pc_led = "decide"
    /\ last_sequence' = led_snap.sequence
    /\ IF led_snap.confidence > kLedMinConfidence /\ led_snap.index /= -1
       THEN LET prediction == inference_get_category_name(led_snap.index)
                is_gesture == prediction /= "idle" /\ prediction /= "unknown"
            IN  IF is_gesture
                THEN /\ led_color' = GestureColor(prediction, led_color)
                     /\ pc_led' = "hold"
                ELSE /\ led_color' = IF prediction = "idle"
                                     THEN set_led_color(ON, OFF, OFF)
                                     ELSE LedOff
                     /\ pc_led' = "sleep"
       ELSE /\ led_color' = LedOff
            /\ pc_led' = "sleep"
    /\ led_prev_seq' = led_snap.sequence
    /\ led_snap' = NoSnap
    /\ UNCHANGED <<storeVars, infVars, bleVars, link, apiVars, fnVars, mainVars>>

\* Variant: a result that fails the gate leaves the LED as it is.
LedDecide_keeps_on_fail ==
    /\ pc_led = "decide"
    /\ IF led_snap.sequence = last_sequence
       THEN /\ pc_led' = "sleep"
            /\ UNCHANGED <<last_sequence, led_color>>
       ELSE /\ last_sequence' = led_snap.sequence
            /\ IF led_snap.confidence > kLedMinConfidence /\ led_snap.index /= -1
               THEN LET prediction == inference_get_category_name(led_snap.index)
                        is_gesture == prediction /= "idle" /\ prediction /= "unknown"
                    IN  IF is_gesture
                        THEN /\ led_color' = GestureColor(prediction, led_color)
                             /\ pc_led' = "hold"
                        ELSE /\ led_color' = IF prediction = "idle"
                                             THEN set_led_color(ON, OFF, OFF)
                                             ELSE LedOff
                             /\ pc_led' = "sleep"
               ELSE /\ led_color' = led_color
                    /\ pc_led' = "sleep"
    /\ led_prev_seq' = led_snap.sequence
    /\ led_snap' = NoSnap
    /\ UNCHANGED <<storeVars, infVars, bleVars, link, apiVars, fnVars, mainVars>>

\* if (sequence == last_sequence) { sleep; continue; } last_sequence = sequence;
\* then the confidence gate and the colour for the category.  The locals of
\* the iteration are not read after this step.
LedDecide ==
    /\ pc_led = "decide"
    /\ IF led_snap.sequence = last_sequence
       THEN /\ pc_led' = "sleep"
            /\ UNCHANGED <<last_sequence, led_color>>
       ELSE /\ last_sequence' = led_snap.sequence
            /\ IF led_snap.confidence > kLedMinConfidence /\ led_snap.index /= -1
               THEN LET prediction == inference_get_category_name(led_snap.index)
                        is_gesture == prediction /= "idle" /\ prediction /= "unknown"
                    IN  IF is_gesture
                        THEN /\ led_color' = GestureColor(prediction, led_color)
                             /\ pc_led' = "hold"
                        ELSE /\ led_color' = IF prediction = "idle"
                                             THEN set_led_color(ON, OFF, OFF)
                                             ELSE LedOff
                             /\ pc_led' = "sleep"
               ELSE /\ led_color' = LedOff
                    /\ pc_led' = "sleep"
    /\ led_prev_seq' = led_snap.sequence
    /\ led_snap' = NoSnap
    /\ UNCHANGED <<storeVars, infVars, bleVars, link, apiVars, fnVars, mainVars>>

\* Variant: the indicator clears the stored result (inference_clear_result)
\* when the hold ends.
LedHoldEnd_clears ==
    /\ pc_led = "hold"
    /\ MutexFree
    /\ led_color' = LedOff
    /\ pc_led' = "sleep"
    /\ g_prediction_index' = -1
    /\ g_confidence' = 0
    /\ UNCHANGED <<g_inference_mutex, g_sequence>>
    /\ UNCHANGED <<led_snap, last_sequence, led_prev_seq>>
    /\ UNCHANGED <<infVars, bleVars, link, apiVars, fnVars, mainVars>>

\* Variant: the hold ends without switching the LED off.
LedHoldEnd_stays_lit ==
    /\ pc_led = "hold"
    /\ pc_led' = "sleep"
    /\ UNCHANGED <<led_snap, last_sequence, led_color, led_prev_seq>>
    /\ UNCHANGED <<storeVars, infVars, bleVars, link, apiVars, fnVars, mainVars>>

\* sleep_for(GESTURE_LIGHT_DURATION_MS) ends; set_led_color(OFF, OFF, OFF)
LedHoldEnd ==
    /\ pc_led = "hold"
    /\ led_color' = LedOff
    /\ pc_led' = "sleep"
    /\ UNCHANGED <<led_snap, last_sequence, led_prev_seq>>
    /\ UNCHANGED <<storeVars, infVars, bleVars, link, apiVars, fnVars, mainVars>>

\* sleep_for(100 ms) ends; the next iteration starts
LedSleepEnd ==
    /\ pc_led = "sleep"
    /\ pc_led' = "snap"
    /\ UNCHANGED <<led_snap, last_sequence, led_color, led_prev_seq>>
    /\ UNCHANGED <<storeVars, infVars, bleVars, link, apiVars, fnVars, mainVars>>

LedTask == LedSnapshot \/ LedDecide \/ LedHoldEnd \/ LedSleepEnd

\* ------------------------------------------ publish consumer: ble_task()

\* Variant: the last published version survives a new connection.
BleCentral_no_reset ==
    /\ pc_ble = "central"
    /\ ble_link_seen' = link
    /\ IF link
       THEN /\ ble_first_poll' = TRUE
            /\ ble_published_before' = ble_published_before \cup ble_published
            /\ ble_published' = {}
            /\ pc_ble' = "connected"
            /\ UNCHANGED last_published_sequence
       ELSE /\ pc_ble' = "idle"
            /\ UNCHANGED <<last_published_sequence, ble_first_poll,
                           ble_published, ble_published_before>>
    /\ UNCHANGED <<ble_snap, ble_repeated>>
    /\ UNCHANGED <<storeVars, infVars, ledVars, link, apiVars, fnVars, mainVars>>

\* BLEDevice central = BLE.central(); if (central) last_published_sequence = 0;
\* otherwise BLE.poll() and sleep_for(kBlePollInterval).
BleCentral ==
    /\ pc_ble = "central"
    /\ ble_link_seen' = link
    /\ IF link
       THEN /\ last_published_sequence' = 0
            /\ ble_first_poll' = TRUE
            /\ ble_published_before' = ble_published_before \cup ble_published
            /\ ble_published' = {}
            /\ pc_ble' = "connected"
       ELSE /\ pc_ble' = "idle"
            /\ UNCHANGED <<last_published_sequence, ble_first_poll,
                           ble_published, ble_published_before>>
    /\ UNCHANGED <<ble_snap, ble_repeated>>
    /\ UNCHANGED <<storeVars, infVars, ledVars, link, apiVars, fnVars, mainVars>>

\* Variant: the loop body runs whatever connected() reports.
BleConnected_unchecked ==
    /\ pc_ble = "connected"
    /\ ble_link_seen' = link
    /\ pc_ble' = "snap"
    /\ UNCHANGED <<ble_snap, last_published_sequence, ble_first_poll,
                   ble_published, ble_published_before, ble_repeated>>
    /\ UNCHANGED <<storeVars, infVars, ledVars, link, apiVars, fnVars, mainVars>>

\* while (central.connected()): into the body (BLE.poll()), or out of the
\* loop: BLE.advertise(), BLE.poll(), sleep_for(kBlePollInterval).
BleConnected ==
    /\ pc_ble = "connected"
    /\ ble_link_seen' = link
    /\ pc_ble' = IF link THEN "snap" ELSE "idle"
    /\ UNCHANGED <<ble_snap, last_published_sequence, ble_first_poll,
                   ble_published, ble_published_before, ble_repeated>>
    /\ UNCHANGED <<storeVars, infVars, ledVars, link, apiVars, fnVars, mainVars>>

\* fresh locals, then the snapshot
BleSnapshot ==
    /\ pc_ble = "snap"
    /\ MutexFree
    /\ ble_snap' = Snapshot
    /\ pc_ble' = "decide"
    /\ UNCHANGED <<last_published_sequence, ble_first_poll, ble_published,
                   ble_published_before, ble_repeated, ble_link_seen>>
    /\ UNCHANGED <<storeVars, infVars, ledVars, link, apiVars, fnVars, mainVars>>

has_new_payload(sequence, prediction_index, confidence) ==
    /\ sequence /= 0
    /\ sequence /= last_published_sequence
    /\ prediction_index /= -1
    /\ confidence >= kMinConfidenceToTransmit

\* const bool has_new_payload = ...; if (has_new_payload) last_published_sequence = sequence;
BleDecide ==
    /\ pc_ble = "decide"
    /\ IF has_new_payload(ble_snap.sequence, ble_snap.index, ble_snap.confidence)
       THEN /\ last_published_sequence' = ble_snap.sequence
            /\ pc_ble' = "publish"
            /\ UNCHANGED ble_snap
       ELSE /\ pc_ble' = "poll_sleep"
            /\ ble_snap' = NoSnap
            /\ UNCHANGED last_published_sequence
    /\ ble_first_poll' = FALSE
    /\ UNCHANGED <<ble_published, ble_published_before, ble_repeated,
                   ble_link_seen>>
    /\ UNCHANGED <<storeVars, infVars, ledVars, link, apiVars, fnVars, mainVars>>

\* g_predictionCharacteristic.writeValue(label);
\* g_confidenceCharacteristic.writeValue(confidence);  The locals of the
\* iteration are not read after this step.
BlePublish ==
    /\ pc_ble = "publish"
    /\ ble_repeated' = (ble_repeated \/ ble_snap.sequence \in ble_published)
    /\ ble_published' = ble_published \cup {ble_snap.sequence}
    /\ pc_ble' = "poll_sleep"
    /\ ble_snap' = NoSnap
    /\ UNCHANGED <<last_published_sequence, ble_first_poll,
                   ble_published_before, ble_link_seen>>
    /\ UNCHANGED <<storeVars, infVars, ledVars, link, apiVars, fnVars, mainVars>>

\* sleep_for(kBlePollInterval) ends: back to while (central.connected()),
\* or to BLE.central() from the idle branch.
BleSleepEnd ==
    /\ pc_ble \in {"poll_sleep", "idle"}
    /\ pc_ble' = IF pc_ble = "poll_sleep" THEN "connected" ELSE "central"
    /\ UNCHANGED <<ble_snap, last_published_sequence, ble_first_poll,
                   ble_published, ble_published_before, ble_repeated,
                   ble_link_seen>>
    /\ UNCHANGED <<storeVars, infVars, ledVars, link, apiVars, fnVars, mainVars>>

BleTask ==
    \/ BleCentral \/ BleConnected \/ BleSnapshot \/ BleDecide \/ BlePublish
    \/ BleSleepEnd

\* The central connects or disconnects; the core observes it, never drives it.
LinkChange ==
    /\ link' = ~link
    /\ UNCHANGED <<storeVars, infVars, ledVars, bleVars, apiVars, fnVars, mainVars>>

\* ------------------------------------- callers of the public accessors

\* inference_get_result(): lock, two reads, unlock
RdLock ==
    /\ pc_rd = "call"
    /\ MutexFree
    /\ g_inference_mutex' = "rd"
    /\ pc_rd' = "read_index"
    /\ UNCHANGED <<g_prediction_index, g_confidence, g_sequence>>
    /\ UNCHANGED <<rd_index, rd_confidence, pc_clr>>
    /\ UNCHANGED <<infVars, ledVars, bleVars, link, fnVars, mainVars>>

RdReadIndex ==
    /\ pc_rd = "read_index"
    /\ rd_index' = g_prediction_index
    /\ pc_rd' = "read_conf"
    /\ UNCHANGED <<rd_confidence, pc_clr>>
    /\ UNCHANGED <<storeVars, infVars, ledVars, bleVars, link, fnVars, mainVars>>

RdReadConf ==
    /\ pc_rd = "read_conf"
    /\ rd_confidence' = g_confidence
    /\ pc_rd' = "unlock"
    /\ UNCHANGED <<rd_index, pc_clr>>
    /\ UNCHANGED <<storeVars, infVars, ledVars, bleVars, link, fnVars, mainVars>>

RdUnlock ==
    /\ pc_rd = "unlock"
    /\ g_inference_mutex' = IF g_inference_mutex = "rd" THEN NoTask
                            ELSE g_inference_mutex
    /\ pc_rd' = "returned"
    /\ UNCHANGED <<g_prediction_index, g_confidence, g_sequence>>
    /\ UNCHANGED <<rd_index, rd_confidence, pc_clr>>
    /\ UNCHANGED <<infVars, ledVars, bleVars, link, fnVars, mainVars>>

\* the caller uses the pair and calls again later
RdAgain ==
    /\ pc_rd = "returned"
    /\ pc_rd' = "call"
    /\ rd_index' = -1
    /\ rd_confidence' = 0
    /\ UNCHANGED pc_clr
    /\ UNCHANGED <<storeVars, infVars, ledVars, bleVars, link, fnVars, mainVars>>

\* inference_clear_result(): lock, two writes, unlock
ClrLock ==
    /\ pc_clr = "call"
    /\ MutexFree
    /\ g_inference_mutex' = "clr"
    /\ pc_clr' = "write_index"
    /\ UNCHANGED <<g_prediction_index, g_confidence, g_sequence>>
    /\ UNCHANGED <<pc_rd, rd_index, rd_confidence>>
    /\ UNCHANGED <<infVars, ledVars, bleVars, link, fnVars, mainVars>>

ClrWriteIndex ==
    /\ pc_clr = "write_index"
    /\ g_prediction_index' = -1
    /\ pc_clr' = "write_conf"
    /\ UNCHANGED <<g_inference_mutex, g_confidence, g_sequence>>
    /\ UNCHANGED <<pc_rd, rd_index, rd_confidence>>
    /\ UNCHANGED <<infVars, ledVars, bleVars, link, fnVars, mainVars>>

ClrWriteConf ==
    /\ pc_clr = "write_conf"
    /\ g_confidence' = 0
    /\ pc_clr' = "unlock"
    /\ UNCHANGED <<g_inference_mutex, g_prediction_index, g_sequence>>
    /\ UNCHANGED <<pc_rd, rd_index, rd_confidence>>
    /\ UNCHANGED <<infVars, ledVars, bleVars, link, fnVars, mainVars>>

ClrUnlock ==
    /\ pc_clr = "unlock"
    /\ g_inference_mutex' = IF g_inference_mutex = "clr" THEN NoTask
                            ELSE g_inference_mutex
    /\ pc_clr' = "call"
    /\ UNCHANGED <<g_prediction_index, g_confidence, g_sequence>>
    /\ UNCHANGED <<pc_rd, rd_index, rd_confidence>>
    /\ UNCHANGED <<infVars, ledVars, bleVars, link, fnVars, mainVars>>

Reader == RdLock \/ RdReadIndex \/ RdReadConf \/ RdUnlock \/ RdAgain
Clearer == ClrLock \/ ClrWriteIndex \/ ClrWriteConf \/ ClrUnlock

\* ------------------------------------- the single-file pipeline (main.cpp)
\* Its two globals are volatile and shared without a lock: every load and
\* store of one of them is a step of its own, in any interleaving.  A read
\* outside the label table is undefined: it yields some string or stops the
\* program.

MainRunning == pc_main_led /= "fault"

\* while (main_buf_idx < FRAME_SIZE): one pass of the loop
MainCollect ==
    /\ MainRunning
    /\ pc_main_inf = "collect"
    /\ \E avail \in BOOLEAN :
         /\ IF avail
            THEN /\ main_buffer' = store_sample(main_buffer, main_buf_idx, readAcceleration(imu_next))
                 /\ main_buf_idx' = main_buf_idx + 3
                 /\ imu_next' = (imu_next + 1) % imu_period
            ELSE UNCHANGED <<main_buffer, main_buf_idx, imu_next>>
         /\ pc_main_inf' = IF main_buf_idx' < EI_CLASSIFIER_DSP_INPUT_FRAME_SIZE
                           THEN "collect" ELSE "classify"
    /\ UNCHANGED <<g_latest_prediction_index, g_latest_confidence,
                   main_max_index, main_max_confidence, main_committed,
                   main_cycles, pc_main_led, led_confidence, led_index_checked,
                   led_index_used, led_indexed, main_led_color>>
    /\ UNCHANGED <<pc_inf, collected, g_sliding_window, new_samples, max_index,
                   max_confidence, imu_period, committed, last_commit,
                   n_commits, same_as_prev,
                   commit_cap, last_version, hold_commits>>
    /\ UNCHANGED <<storeVars, ledVars, bleVars, link, apiVars, fnVars>>

\* signal_from_buffer or run_classifier reports an error: continue, with a
\* fresh main_buffer
MainClassifyFail ==
    /\ MainRunning
    /\ pc_main_inf = "classify"
    /\ pc_main_inf' = "collect"
    /\ main_buffer' = ZeroBuffer(EI_CLASSIFIER_DSP_INPUT_FRAME_SIZE)
    /\ main_buf_idx' = 0
    /\ UNCHANGED <<g_latest_prediction_index, g_latest_confidence,
                   main_max_index, main_max_confidence, main_committed,
                   main_cycles, pc_main_led, led_confidence, led_index_checked,
                   led_index_used, led_indexed, main_led_color>>
    /\ UNCHANGED <<storeVars, infVars, ledVars, bleVars, link, apiVars, fnVars>>

\* the classifier succeeds; the arg-max loop runs
MainClassifyOk ==
    /\ MainRunning
    /\ pc_main_inf = "classify"
    /\ main_cycles < MaxVersion
    /\ \E classification \in ClassifierOutputs :
         LET m == arg_max(classification) IN
         /\ main_max_index' = m[1]
         /\ main_max_confidence' = m[2]
    /\ pc_main_inf' = "write_index"
    /\ UNCHANGED <<g_latest_prediction_index, g_latest_confidence, main_buffer,
                   main_buf_idx, main_committed, main_cycles, pc_main_led,
                   led_confidence, led_index_checked, led_index_used,
                   led_indexed, main_led_color>>
    /\ UNCHANGED <<storeVars, infVars, ledVars, bleVars, link, apiVars, fnVars>>

\* g_latest_prediction_index = max_index
MainWriteIndex ==
    /\ MainRunning
    /\ pc_main_inf = "write_index"
    /\ g_latest_prediction_index' = main_max_index
    /\ pc_main_inf' = "write_conf"
    /\ UNCHANGED <<g_latest_confidence, main_buffer, main_buf_idx, main_max_index,
                   main_max_confidence, main_committed, main_cycles,
                   pc_main_led, led_confidence, led_index_checked,
                   led_index_used, led_indexed, main_led_color>>
    /\ UNCHANGED <<storeVars, infVars, ledVars, bleVars, link, apiVars, fnVars>>

\* g_latest_confidence = max_confidence
MainWriteConf ==
    /\ MainRunning
    /\ pc_main_inf = "write_conf"
    /\ g_latest_confidence' = main_max_confidence
    /\ main_committed' = main_committed \cup {<<main_max_index, main_max_confidence>>}
    /\ main_cycles' = main_cycles + 1
    /\ pc_main_inf' = "sleep"
    /\ UNCHANGED <<g_latest_prediction_index, main_buffer, main_buf_idx, main_max_index,
                   main_max_confidence, pc_main_led, led_confidence,
                   led_index_checked, led_index_used, led_indexed,
                   main_led_color>>
    /\ UNCHANGED <<storeVars, infVars, ledVars, bleVars, link, apiVars, fnVars>>

\* sleep_for(1 ms) ends; the next pass starts with fresh locals
MainSleepEnd ==
    /\ MainRunning
    /\ pc_main_inf = "sleep"
    /\ pc_main_inf' = "collect"
    /\ main_buffer' = ZeroBuffer(EI_CLASSIFIER_DSP_INPUT_FRAME_SIZE)
    /\ main_buf_idx' = 0
    /\ main_max_index' = -1
    /\ main_max_confidence' = 0
    /\ UNCHANGED <<g_latest_prediction_index, g_latest_confidence,
                   main_committed, main_cycles, pc_main_led, led_confidence,
                   led_index_checked, led_index_used, led_indexed,
                   main_led_color>>
    /\ UNCHANGED <<storeVars, infVars, ledVars, bleVars, link, apiVars, fnVars>>

MainInferenceTask ==
    \/ MainCollect \/ MainClassifyFail \/ MainClassifyOk \/ MainWriteIndex
    \/ MainWriteConf \/ MainSleepEnd

\* What a read of the label table outside its bounds can yield: the address
\* of one of the labels, of some other string, or of no readable memory.
OutOfBoundsReads ==
    {ei_classifier_inferencing_categories[i] :
        i \in 1..EI_CLASSIFIER_LABEL_COUNT} \cup {"unknown", "other", "fault"}

\* The strcmp chain of main.cpp's led_control_task.
MainColor(prediction, current) ==
    IF prediction = "up" THEN set_led_color(OFF, ON, OFF)
    ELSE IF prediction = "down" THEN set_led_color(ON, ON, OFF)
    ELSE IF prediction = "left" THEN set_led_color(OFF, OFF, ON)
    ELSE IF prediction = "right" THEN set_led_color(ON, OFF, ON)
    ELSE IF prediction = "idle" THEN set_led_color(ON, OFF, OFF)
    ELSE IF prediction = "unknown" THEN set_led_color(OFF, OFF, OFF)
    ELSE current

\* if (g_latest_confidence > 0.65 && ...): the load of the confidence
MainLedReadConfidence ==
    /\ pc_main_led = "read_confidence"
    /\ led_confidence' = g_latest_confidence
    /\ IF g_latest_confidence > kLedMinConfidence
       THEN pc_main_led' = "read_index" /\ UNCHANGED main_led_color
       ELSE pc_main_led' = "sleep" /\ main_led_color' = LedOff
    /\ UNCHANGED <<g_latest_prediction_index, g_latest_confidence, pc_main_inf,
                   main_buffer, main_buf_idx, main_max_index, main_max_confidence,
                   main_committed, main_cycles, led_index_checked,
                   led_index_used, led_indexed>>
    /\ UNCHANGED <<storeVars, infVars, ledVars, bleVars, link, apiVars, fnVars>>

\* ... && g_latest_prediction_index != -1): the load of the index
MainLedReadIndex ==
    /\ pc_main_led = "read_index"
    /\ led_index_checked' = g_latest_prediction_index
    /\ IF g_latest_prediction_index /= -1
       THEN pc_main_led' = "lookup" /\ UNCHANGED main_led_color
       ELSE pc_main_led' = "sleep" /\ main_led_color' = LedOff
    /\ UNCHANGED <<g_latest_prediction_index, g_latest_confidence, pc_main_inf,
                   main_buffer, main_buf_idx, main_max_index, main_max_confidence,
                   main_committed, main_cycles, led_confidence,
                   led_index_used, led_indexed>>
    /\ UNCHANGED <<storeVars, infVars, ledVars, bleVars, link, apiVars, fnVars>>

\* prediction = ei_classifier_inferencing_categories[g_latest_prediction_index]
\* (a second load of the index), then the strcmp chain
MainLedLookup ==
    /\ pc_main_led = "lookup"
    /\ led_index_used' = g_latest_prediction_index
    /\ led_indexed' = TRUE
    /\ \E prediction \in
            (IF /\ g_latest_prediction_index >= 0
                /\ g_latest_prediction_index < EI_CLASSIFIER_LABEL_COUNT
             THEN {ei_classifier_inferencing_categories[g_latest_prediction_index + 1]}
             ELSE OutOfBoundsReads) :
         IF prediction = "fault"
         THEN pc_main_led' = "fault" /\ UNCHANGED main_led_color
         ELSE /\ pc_main_led' = "sleep"
              /\ main_led_color' = MainColor(prediction, main_led_color)
    /\ UNCHANGED <<g_latest_prediction_index, g_latest_confidence, pc_main_inf,
                   main_buffer, main_buf_idx, main_max_index, main_max_confidence,
                   main_committed, main_cycles, led_confidence,
                   led_index_checked>>
    /\ UNCHANGED <<storeVars, infVars, ledVars, bleVars, link, apiVars, fnVars>>

\* sleep_for(100 ms) ends; the next pass
MainLedSleepEnd ==
    /\ pc_main_led = "sleep"
    /\ pc_main_led' = "read_confidence"
    /\ led_confidence' = 0
    /\ led_index_checked' = -1
    /\ led_index_used' = -1
    /\ led_indexed' = FALSE
    /\ UNCHANGED <<g_latest_prediction_index, g_latest_confidence, pc_main_inf,
                   main_buffer, main_buf_idx, main_max_index, main_max_confidence,
                   main_committed, main_cycles, main_led_color>>
    /\ UNCHANGED <<storeVars, infVars, ledVars, bleVars, link, apiVars, fnVars>>

MainLedTask ==
    \/ MainLedReadConfidence \/ MainLedReadIndex \/ MainLedLookup
    \/ MainLedSleepEnd

\* ---------------------------------------------------------------- initial
InitStore ==
    /\ g_inference_mutex = NoTask
    /\ g_prediction_index = -1
    /\ g_confidence = 0
    /\ g_sequence = 0

InitInf ==
    /\ pc_inf = "fill"
    /\ collected = 0
    /\ g_sliding_window = ZeroBuffer(EI_CLASSIFIER_DSP_INPUT_FRAME_SIZE)
    /\ new_samples = ZeroBuffer(SLIDING_WINDOW_STEP)
    /\ max_index = -1
    /\ max_confidence = 0
    /\ imu_next = 0
    /\ committed = {}
    /\ last_commit = <<>>
    /\ n_commits = 0
    /\ same_as_prev = FALSE
    /\ last_version = 0
    /\ hold_commits = 0

InitLed ==
    /\ pc_led = "snap"
    /\ led_snap = NoSnap
    /\ last_sequence = 0
    /\ led_color = set_led_color(HIGH, HIGH, HIGH)
    /\ led_prev_seq = -1

InitBle ==
    /\ pc_ble = "central"
    /\ ble_snap = NoSnap
    /\ last_published_sequence = 0
    /\ ble_first_poll = FALSE
    /\ ble_published = {}
    /\ ble_published_before = {}
    /\ ble_repeated = FALSE
    /\ ble_link_seen = FALSE
    /\ link = FALSE

InitApi ==
    /\ pc_rd = "call"
    /\ rd_index = -1
    /\ rd_confidence = 0
    /\ pc_clr = "call"

InitFn ==
    /\ sw_old = <<>>
    /\ sw_new = <<>>
    /\ sw_done = FALSE
    /\ arg_scores = <<>>
    /\ arg_out = <<>>

InitMain ==
    /\ g_latest_prediction_index = -1
    /\ g_latest_confidence = 0
    /\ pc_main_inf = "collect"
    /\ main_buffer = ZeroBuffer(EI_CLASSIFIER_DSP_INPUT_FRAME_SIZE)
    /\ main_buf_idx = 0
    /\ main_max_index = -1
    /\ main_max_confidence = 0
    /\ main_committed = {}
    /\ main_cycles = 0
    /\ pc_main_led = "read_confidence"
    /\ led_confidence = 0
    /\ led_index_checked = -1
    /\ led_index_used = -1
    /\ led_indexed = FALSE
    /\ main_led_color = set_led_color(HIGH, HIGH, HIGH)

\* ---------------------------------------------------------- specifications
\* The three tasks of the modular pipeline and the link.
Init ==
    /\ InitStore /\ InitMain /\ InitInf /\ InitLed /\ InitBle /\ InitApi /\ InitFn
    /\ imu_period = 1
    /\ commit_cap = MaxVersion

Next == InferenceTask \/ LedTask \/ BleTask \/ LinkChange

Spec == Init /\ [][Next]_vars

\* The module's accessors called from other threads, next to the producer.
NextApi == InferenceTask \/ Reader \/ Clearer

SpecApi == Init /\ [][NextApi]_vars

\* slide_window on every window over WinVals and every block of new values
\* of length 0 < step < frame_size.
NewBlocks ==
    { [j \in 1..n |-> b + j] :
        n \in 1..(EI_CLASSIFIER_DSP_INPUT_FRAME_SIZE - 1), b \in BlockBases }

InitSlide ==
    /\ InitStore /\ InitMain /\ InitLed /\ InitBle /\ InitApi
    /\ pc_inf = "fill" /\ collected = 0
    /\ g_sliding_window \in [1..EI_CLASSIFIER_DSP_INPUT_FRAME_SIZE -> WinVals]
    /\ new_samples = ZeroBuffer(SLIDING_WINDOW_STEP)
    /\ max_index = -1 /\ max_confidence = 0
    /\ imu_next = 0 /\ imu_period = 1
    /\ committed = {} /\ last_commit = <<>> /\ n_commits = 0
    /\ same_as_prev = FALSE
    /\ commit_cap = MaxVersion /\ last_version = 0 /\ hold_commits = 0
    /\ sw_old = <<>>
    /\ sw_new \in NewBlocks
    /\ sw_done = FALSE
    /\ arg_scores = <<>> /\ arg_out = <<>>

SlideApply ==
    /\ ~sw_done
    /\ sw_old' = g_sliding_window
    /\ g_sliding_window' = slide_window(g_sliding_window, sw_new, Len(sw_new))
    /\ sw_done' = TRUE
    /\ UNCHANGED <<sw_new, arg_scores, arg_out>>
    /\ UNCHANGED <<pc_inf, collected, new_samples, max_index, max_confidence,
                   imu_next, imu_period, committed, last_commit, n_commits,
                   same_as_prev,
                   commit_cap, last_version, hold_commits>>
    /\ UNCHANGED <<storeVars, ledVars, bleVars, link, apiVars, mainVars>>

SpecSlide == InitSlide /\ [][SlideApply]_vars

\* The arg-max loop on every score vector over ScoreLevels.
InitArgmax ==
    /\ InitStore /\ InitMain /\ InitInf /\ InitLed /\ InitBle /\ InitApi
    /\ imu_period = 1
    /\ commit_cap = MaxVersion
    /\ sw_old = <<>> /\ sw_new = <<>> /\ sw_done = FALSE
    /\ arg_scores \in AllScoreVectors
    /\ arg_out = <<>>

ArgmaxApply ==
    /\ arg_out = <<>>
    /\ arg_out' = arg_max(arg_scores)
    /\ UNCHANGED <<sw_old, sw_new, sw_done, arg_scores>>
    /\ UNCHANGED <<storeVars, infVars, ledVars, bleVars, link, apiVars, mainVars>>

SpecArgmax == InitArgmax /\ [][ArgmaxApply]_vars

\* The producer alone on a signal whose samples stay distinguishable over one
\* window and one step.
InitWindow ==
    /\ InitStore /\ InitMain /\ InitInf /\ InitLed /\ InitBle /\ InitApi /\ InitFn
    /\ imu_period = FrameTriples + SLIDING_WINDOW_STEP \div 3
    /\ commit_cap = MaxVersion

SpecWindow == InitWindow /\ [][InferenceTask]_vars


\* The producer and the indicator, with one commit more than in Spec: one
\* to start a hold and two that can fall into it.
InitHold ==
    /\ InitStore /\ InitMain /\ InitInf /\ InitLed /\ InitBle /\ InitApi /\ InitFn
    /\ imu_period = 1
    /\ commit_cap = MaxVersion + 1

NextHold == InferenceTask \/ LedTask

SpecHold == InitHold /\ [][NextHold]_vars

\* The two tasks of the single-file pipeline (main.cpp).
NextMain == MainInferenceTask \/ MainLedTask

SpecMain == Init /\ [][NextMain]_vars

\* The three tasks under the scheduler: tasks of equal priority are served
\* round robin, so a task that can take a step takes one; a task waiting
\* for the mutex gets it when it is released often enough (the waiters of an
\* rtos::Mutex are queued); the accelerometer has a sample ready again and
\* again (a step of InfFill or InfCollect that changes nothing is a poll
\* that found no sample).  Nothing is assumed about the central or about the
\* classifier's success.
Fairness ==
    /\ WF_vars(InferenceTask)
    /\ WF_vars(LedDecide \/ LedHoldEnd \/ LedSleepEnd)
    /\ SF_vars(LedSnapshot)
    /\ WF_vars(BleCentral \/ BleConnected \/ BleDecide \/ BlePublish
                  \/ BleSleepEnd)
    /\ SF_vars(BleSnapshot)

SpecLive == Init /\ [][Next]_vars /\ Fairness

\* ------------------------------------------------------------------ claims
InfCritical == {"write_index", "write_conf", "write_seq", "unlock"}
InitialPair == <<-1, 0>>

\* C2: a pair returned by inference_get_result is the initial/cleared pair
\* or the pair one single commit wrote; the snapshots of the consumers too.
C2_NoTornRead ==
    /\ pc_rd = "returned" =>
          <<rd_index, rd_confidence>> \in committed \cup {InitialPair}
    /\ <<led_snap.index, led_snap.confidence>> \in committed \cup {InitialPair}
    /\ <<ble_snap.index, ble_snap.confidence>> \in committed \cup {InitialPair}

C2_Witness ==
    /\ pc_rd = "returned"
    /\ rd_index = 1
    /\ rd_confidence = 65
    /\ Cardinality(committed) >= 2
    /\ g_prediction_index = -1

\* C3: after slide_window with a block of length 0 < step < frame_size the
\* window keeps its length, ends with the block in order, and starts with
\* the old cells step .. frame_size-1 in order.
C3_SlideKeepsOrder ==
    sw_done =>
        LET n == Len(sw_new)
            F == EI_CLASSIFIER_DSP_INPUT_FRAME_SIZE
        IN  /\ DOMAIN g_sliding_window = 1..F
            /\ \A j \in 1..n : g_sliding_window[F - n + j] = sw_new[j]
            /\ \A i \in 1..(F - n) : g_sliding_window[i] = sw_old[i + n]

C3_Witness ==
    /\ sw_done
    /\ Len(sw_new) = SLIDING_WINDOW_STEP
    /\ sw_old[SLIDING_WINDOW_STEP + 1] = 1
    /\ sw_old[1] = 0
    /\ g_sliding_window[1] = 1

MaxScore(v) == CHOOSE m \in {v[i] : i \in DOMAIN v} : \A i \in DOMAIN v : v[i] <= m
FirstIndexOf(v, m) ==
    CHOOSE i \in 0..(Len(v) - 1) :
        v[i + 1] = m /\ \A j \in 0..(i - 1) : v[j + 1] /= m

\* C4 as stated: the result of the arg-max loop is always the lowest index
\* holding the maximum score, with that score, also when all scores are zero.
C4_ArgmaxAlwaysValidIndex ==
    arg_out /= <<>> =>
        arg_out = <<FirstIndexOf(arg_scores, MaxScore(arg_scores)),
                    MaxScore(arg_scores)>>

\* C4 amended: when some score is above zero the result is the lowest index
\* holding the maximum score, with that score; when no score is above zero
\* the result is the sentinel -1 with confidence 0.
C4_ArgmaxFirstPositiveMax ==
    arg_out /= <<>> =>
        IF MaxScore(arg_scores) > 0
        THEN arg_out = <<FirstIndexOf(arg_scores, MaxScore(arg_scores)),
                         MaxScore(arg_scores)>>
        ELSE arg_out = <<-1, 0>>

C4_Witness ==
    /\ arg_scores = <<0, 65, 65, 54, 0>>
    /\ arg_out = <<1, 65>>

\* C5 as stated: the publish consumer is never about to write the
\* characteristics while the link is down.
C5_NeverPublishWhileDisconnected ==
    pc_ble = "publish" => link

\* C5 amended: the publish consumer writes the characteristics only in a
\* loop pass whose central.connected() check reported the link up.
C5_PublishOnlyAfterConnectedCheck ==
    pc_ble = "publish" => ble_link_seen

C5_Witness ==
    /\ pc_ble = "publish"
    /\ ble_link_seen
    /\ ~link

\* C6: a consumer whose snapshot carries the version of its previous
\* snapshot leaves the LED as it is, and a version already published in
\* this connection is not published again.
C6_SameVersionNoAction ==
    [][ /\ (pc_led = "decide" /\ led_snap.sequence = led_prev_seq) =>
               (led_color' = led_color /\ pc_led' \in {"decide", "sleep"})
        /\ (pc_ble = "decide" /\ ble_snap.sequence \in ble_published) =>
               pc_ble' /= "publish"
        /\ ~ble_repeated' ]_vars

C6_Witness ==
    /\ pc_led = "decide"
    /\ led_snap.sequence = led_prev_seq
    /\ led_snap.sequence >= 1
    /\ led_snap.confidence > kLedMinConfidence
    /\ pc_ble = "decide"
    /\ ble_snap.sequence \in ble_published

LedRed == set_led_color(ON, OFF, OFF)

\* C7 as stated: for a new version with a valid index, each consumer acts
\* exactly when the confidence is at or above its threshold (0.65 for the
\* indicator, 0.55 for the publisher).
C7_GatePassesAtThreshold ==
    [][ /\ (/\ pc_led = "decide" /\ pc_led' /= "decide"
            /\ led_snap.sequence /= last_sequence
            /\ led_snap.index /= -1) =>
               ((led_snap.confidence >= kLedMinConfidence) <=>
                   (pc_led' = "hold" \/ led_color' = LedRed))
        /\ (/\ pc_ble = "decide" /\ pc_ble' /= "decide"
            /\ ble_snap.sequence /= 0
            /\ ble_snap.sequence /= last_published_sequence
            /\ ble_snap.index /= -1) =>
               ((ble_snap.confidence >= kMinConfidenceToTransmit) <=>
                   pc_ble' = "publish") ]_vars

StoreIsLastCommit ==
    /\ <<g_prediction_index, g_confidence>> =
          (IF last_commit = <<>> THEN InitialPair ELSE last_commit)
    /\ g_sequence = last_version

\* C8: after a failed classifier run the store holds the pair and version
\* of the last successful commit, the stored index is a category or -1, and
\* the producer can go on to its next cycle.
C8_FailureKeepsResult ==
    /\ pc_inf = "fail_sleep" => (StoreIsLastCommit /\ ENABLED InfSleepEnd)
    /\ g_prediction_index \in -1..(EI_CLASSIFIER_LABEL_COUNT - 1)
    /\ led_snap.index \in -1..(EI_CLASSIFIER_LABEL_COUNT - 1)
    /\ ble_snap.index \in -1..(EI_CLASSIFIER_LABEL_COUNT - 1)

C8_Witness ==
    /\ pc_inf = "fail_sleep"
    /\ n_commits >= 1
    /\ g_prediction_index = 3
    /\ g_confidence = 90

\* C9: entering a connection sets the last published version to 0, and the
\* first poll of the connection publishes the snapshot it takes if that has
\* a valid index and a confidence at or above the publisher threshold.
C9_FirstPollPublishes ==
    [][ /\ (pc_ble = "central" /\ pc_ble' = "connected") =>
               last_published_sequence' = 0
        /\ (/\ pc_ble = "decide" /\ pc_ble' /= "decide"
            /\ ble_first_poll
            /\ ble_snap.index /= -1
            /\ ble_snap.confidence >= kMinConfidenceToTransmit) =>
               pc_ble' = "publish" ]_vars

C9_Witness ==
    /\ pc_ble = "publish"
    /\ ble_published = {}
    /\ ble_snap.sequence \in ble_published_before
    /\ last_published_sequence = ble_snap.sequence

\* C10: whoever holds the mutex is between its lock and its unlock, where
\* it only copies or replaces the stored fields; no task holds it at a
\* sample wait, in the classifier, in a sleep or in the LED hold; and the
\* holder's next step towards its unlock never has to wait.
C10_LockOnlyInCriticalSection ==
    /\ g_inference_mutex \in {NoTask, "inf", "rd", "clr"}
    /\ g_inference_mutex = "inf" =>
          /\ pc_inf \in InfCritical
          /\ ENABLED (InfWriteIndex \/ InfWriteConf \/ InfWriteSeq \/ InfUnlock)
    /\ g_inference_mutex = "rd" =>
          /\ pc_rd \in {"read_index", "read_conf", "unlock"}
          /\ ENABLED (RdReadIndex \/ RdReadConf \/ RdUnlock)
    /\ g_inference_mutex = "clr" =>
          /\ pc_clr \in {"write_index", "write_conf", "unlock"}
          /\ ENABLED (ClrWriteIndex \/ ClrWriteConf \/ ClrUnlock)

C10_Witness ==
    /\ g_inference_mutex = "inf"
    /\ pc_inf = "write_conf"
    /\ pc_rd = "call"
    /\ pc_clr = "call"

StoredResult == <<g_prediction_index, g_confidence, g_sequence>>

\* C11: only a step of the producer inside its critical section changes the
\* stored index, confidence or version, and such a step changes nothing of
\* the consumers; the indicator's last-seen version changes only in a step
\* of the indicator, the publisher's only in a step of the publisher.
C11_OnlyProducerWritesStore ==
    [][ /\ StoredResult' /= StoredResult =>
               /\ pc_inf \in InfCritical
               /\ pc_inf' /= pc_inf
               /\ UNCHANGED <<ledVars, bleVars>>
        /\ (ledVars' /= ledVars \/ bleVars' /= bleVars) =>
               UNCHANGED <<StoredResult, infVars>>
        /\ last_sequence' /= last_sequence =>
               (pc_led = "decide" /\ pc_led' /= "decide" /\ UNCHANGED bleVars)
        /\ last_published_sequence' /= last_published_sequence =>
               (pc_ble \in {"central", "decide"} /\ pc_ble' /= pc_ble
                /\ UNCHANGED ledVars) ]_vars

C11_Witness ==
    /\ pc_led = "hold"
    /\ last_sequence = 1
    /\ last_published_sequence = 2
    /\ g_sequence = 2
    /\ pc_ble = "poll_sleep"

\* The values of the n samples that arrived before the latest k samples, in
\* arrival order, x then y then z of each.
Arrived(k, n) ==
    [i \in 1..(3 * n) |->
        readAcceleration((imu_next + 2 * imu_period - k - n + (i - 1) \div 3)
                             % imu_period)[((i - 1) % 3) + 1]]
Prefix(buf, n) == [i \in 1..n |-> buf[i]]

\* C13: a collection loop writes whole triples below num_samples only and
\* holds the samples in arrival order; when the loop of the task starts the
\* window holds the frame_size latest values; at the slide the block holds
\* the step latest values and the window the frame_size values before them;
\* whenever the classifier runs the window holds exactly the frame_size
\* latest values in arrival order.
C13_WindowHoldsLatestSamples ==
    LET F == EI_CLASSIFIER_DSP_INPUT_FRAME_SIZE
        c == collected \div 3
    IN  /\ collected % 3 = 0
        /\ pc_inf = "fill" =>
              /\ collected + 3 <= F
              /\ Prefix(g_sliding_window, collected) = Arrived(0, c)
        /\ pc_inf = "collect" =>
              /\ collected + 3 <= SLIDING_WINDOW_STEP
              /\ Prefix(new_samples, collected) = Arrived(0, c)
              /\ g_sliding_window = Arrived(c, FrameTriples)
        /\ pc_inf = "slide" =>
              /\ new_samples = Arrived(0, SLIDING_WINDOW_STEP \div 3)
              /\ g_sliding_window =
                    Arrived(SLIDING_WINDOW_STEP \div 3, FrameTriples)
        /\ pc_inf \notin {"fill", "collect", "slide"} =>
              g_sliding_window = Arrived(0, FrameTriples)

C13_Witness ==
    /\ pc_inf = "classify"
    /\ n_commits = 1
    /\ imu_next = 2
    /\ g_sliding_window[1] = 3 * (imu_period - 1)
    /\ g_sliding_window[EI_CLASSIFIER_DSP_INPUT_FRAME_SIZE] = 5

\* The LED pins (active low) for the colours of the categories.
AllOff == <<HIGH, HIGH, HIGH>>
Green == <<HIGH, LOW, HIGH>>
Yellow == <<LOW, LOW, HIGH>>
Purple == <<LOW, HIGH, LOW>>
Blue == <<HIGH, HIGH, LOW>>
Red == <<LOW, HIGH, HIGH>>
DirectionalColours == {Green, Yellow, Purple, Blue}
ColourOf(name) ==
    CASE name = "up" -> Green
      [] name = "down" -> Yellow
      [] name = "right" -> Purple
      [] name = "left" -> Blue
      [] name = "idle" -> Red
      [] OTHER -> AllOff
CategoryAt(index) ==
    IF index \in 0..(Len(ei_classifier_inferencing_categories) - 1)
    THEN ei_classifier_inferencing_categories[index + 1]
    ELSE "none"

\* C16: the LED shows a directional colour only during the hold; during the
\* hold the indicator takes no snapshot and records no version, whatever the
\* producer commits meanwhile, and the hold ends with the LED off; the
\* snapshot taken after the hold carries the pair and the version of the
\* latest commit only, so that of several results committed during the hold
\* the earlier ones are never processed; the resting colour stays until the
\* indicator processes a snapshot with a new version.
C16_HoldThenOff ==
    [][ /\ led_color' \in DirectionalColours => pc_led' = "hold"
        /\ pc_led' = "hold" => led_color' \in DirectionalColours
        /\ pc_led = "hold" =>
               /\ UNCHANGED <<led_snap, last_sequence>>
               /\ pc_led' = "hold" \/ (pc_led' = "sleep" /\ led_color' = AllOff)
        /\ (pc_led = "snap" /\ pc_led' = "decide" /\ last_commit /= <<>>) =>
               /\ <<led_snap'.index, led_snap'.confidence>> = last_commit
               /\ led_snap'.sequence = last_version
        /\ (pc_led = "decide" /\ pc_led' /= "decide" /\ last_commit /= <<>>
                /\ led_snap.sequence /= last_sequence) =>
               /\ <<led_snap.index, led_snap.confidence>> \in committed
               /\ led_color' \in {AllOff, ColourOf(CategoryAt(led_snap.index))}
        /\ (led_color = Red /\ led_color' /= Red) =>
               (pc_led = "decide" /\ led_snap.sequence /= last_sequence) ]_vars

\* Two different results were committed during one hold, which began on
\* version 1; the hold has ended with the LED off and the snapshot after it
\* carries only the later of the two, version 3.
C16_Witness ==
    /\ pc_led = "decide"
    /\ hold_commits = 2
    /\ last_sequence = 1
    /\ led_color = AllOff
    /\ led_snap.sequence = 3
    /\ <<led_snap.index, led_snap.confidence>> = last_commit
    /\ Cardinality(committed) = 3

\* C17: when the indicator has processed a snapshot with a new version the
\* LED is off if the confidence is below the threshold or the index is -1
\* or the category has no colour, and otherwise shows nothing but the colour
\* of that category or off; after a hold it is off; the LED changes in no
\* other step.
C17_LedFollowsLatestResult ==
    [][ /\ (/\ pc_led = "decide" /\ pc_led' /= "decide"
            /\ led_snap.sequence /= last_sequence) =>
               LET name == CategoryAt(led_snap.index) IN
               /\ (led_snap.confidence < kLedMinConfidence \/ led_snap.index = -1
                     \/ ColourOf(name) = AllOff) =>
                      (led_color' = AllOff /\ pc_led' = "sleep")
               /\ led_color' \in {AllOff, ColourOf(name)}
        /\ (pc_led = "hold" /\ pc_led' /= "hold") => led_color' = AllOff
        /\ led_color' /= led_color => pc_led \in {"decide", "hold"} ]_vars

C17_Witness ==
    /\ pc_led = "sleep"
    /\ led_color = AllOff
    /\ last_sequence = 2
    /\ g_sequence = 2
    /\ g_prediction_index = -1
    /\ <<0, 90>> \in committed

\* C14 as stated: the confidence and the index one pass of main.cpp's
\* indicator task decides on, at its gate and at its table lookup, are a pair
\* one producer cycle wrote (or the initial pair).
C14_DecisionPairFromOneCycle ==
    /\ pc_main_led = "lookup" =>
          <<led_index_checked, led_confidence>> \in main_committed \cup {InitialPair}
    /\ led_indexed =>
          <<led_index_used, led_confidence>> \in main_committed \cup {InitialPair}

\* C15 as stated: whenever the label table has been indexed, the index was
\* within 0 .. label count - 1.
C15_TableIndexInRange ==
    led_indexed =>
        (led_index_used >= 0 /\ led_index_used < EI_CLASSIFIER_LABEL_COUNT)

\* C12 as stated (two consequences of it): the producer commits at some
\* time, and each consumer takes a snapshot again and again.
C12_AllTasksProgress ==
    /\ <>(n_commits >= 1)
    /\ []<>(pc_led = "decide")
    /\ []<>(pc_ble = "decide")

\* C12 amended: the producer reaches the classifier again and again, and
\* every successful classification is committed; the indicator takes a
\* snapshot again and again; the publisher tests the link again and again,
\* and takes a snapshot again and again if the central stays connected from
\* some time on.
C12_NoTaskStarves ==
    /\ []<>(pc_inf = "classify")
    /\ (pc_inf = "lock") ~> (pc_inf = "yield")
    /\ []<>(pc_led = "decide")
    /\ []<>(pc_ble \in {"central", "connected"})
    /\ (<>[]link) => []<>(pc_ble = "decide")

C12_Witness ==
    /\ pc_inf = "write_conf"
    /\ g_inference_mutex = "inf"
    /\ pc_led = "snap"
    /\ pc_ble = "snap"
    /\ n_commits = 1

====
